---- MODULE Spec2Model ----
(***************************************************************************)
(* A model of ui/hooks/useCurrencyDisplay.js: the useCurrencyDisplay hook, *)
(* its value resolution (useMemo), suffix resolution and string assembly.  *)
(*                                                                         *)
(* JavaScript values are tagged records; strings are sequences of          *)
(* one-character strings, so that concatenation, upper-casing and the      *)
(* parsing of hexadecimal text are computed rather than assumed.           *)
(***************************************************************************)
EXTENDS Integers, Sequences, FiniteSets, TLC

(***************************************************************************)
(* JavaScript values                                                       *)
(***************************************************************************)
Undefined == [tag |-> "undefined"]

Null == [tag |-> "null"]

Str(s) == [tag |-> "string", val |-> s]

Num(n) == [tag |-> "number", val |-> n]

Bool(b) == [tag |-> "boolean", val |-> b]

\* ToBoolean: what `if (v)`, `v || w`, `v && w` and `v ? a : b` test.
Truthy(v) ==
  CASE v.tag = "undefined" -> FALSE
    [] v.tag = "null" -> FALSE
    [] v.tag = "string" -> v.val # <<>>
    [] v.tag = "number" -> v.val # 0
    [] v.tag = "boolean" -> v.val

\* a || b
Or(a, b) == IF Truthy(a) THEN a ELSE b

\* The text a value contributes to a template literal `${v}`.
ToStringJS(v) ==
  CASE v.tag = "undefined" -> <<"u", "n", "d", "e", "f", "i", "n", "e", "d">>
    [] v.tag = "null" -> <<"n", "u", "l", "l">>
    [] v.tag = "string" -> v.val

(***************************************************************************)
(* Characters                                                              *)
(***************************************************************************)
DecChars == <<"0", "1", "2", "3", "4", "5", "6", "7", "8", "9">>

HexChars == DecChars \o <<"a", "b", "c", "d", "e", "f">>

IsDecChar(c) == \E i \in 1..Len(DecChars) : DecChars[i] = c

IsHexChar(c) == \E i \in 1..Len(HexChars) : HexChars[i] = c

\* The value of a hexadecimal digit.
HexVal(c) == (CHOOSE i \in 1..Len(HexChars) : HexChars[i] = c) - 1

DigitChar(d) == DecChars[d + 1]

LowerLetters ==
  <<"a", "b", "c", "d", "e", "f", "g", "h", "i", "j", "k", "l", "m",
    "n", "o", "p", "q", "r", "s", "t", "u", "v", "w", "x", "y", "z">>

UpperLetters ==
  <<"A", "B", "C", "D", "E", "F", "G", "H", "I", "J", "K", "L", "M",
    "N", "O", "P", "Q", "R", "S", "T", "U", "V", "W", "X", "Y", "Z">>

UpperChar(c) ==
  IF \E i \in 1..Len(LowerLetters) : LowerLetters[i] = c
  THEN UpperLetters[CHOOSE i \in 1..Len(LowerLetters) : LowerLetters[i] = c]
  ELSE c

\* String.prototype.toUpperCase
toUpperCase(s) == [i \in 1..Len(s) |-> UpperChar(s[i])]

Reverse(s) == [i \in 1..Len(s) |-> s[Len(s) + 1 - i]]

(***************************************************************************)
(* Natural numbers of any size, as decimal digits, least significant first *)
(* and without leading zeros (zero is the empty sequence).                 *)
(***************************************************************************)
RECURSIVE CarryDigits(_)
CarryDigits(c) == IF c = 0 THEN <<>> ELSE <<c % 10>> \o CarryDigits(c \div 10)

\* mag * m + carry
RECURSIVE MulAdd(_, _, _)
MulAdd(mag, m, carry) ==
  IF mag = <<>>
  THEN CarryDigits(carry)
  ELSE LET t == Head(mag) * m + carry
       IN <<t % 10>> \o MulAdd(Tail(mag), m, t \div 10)

RECURSIVE Normalize(_)
Normalize(mag) ==
  IF mag = <<>> THEN <<>>
  ELSE IF mag[Len(mag)] = 0 THEN Normalize(SubSeq(mag, 1, Len(mag) - 1))
  ELSE mag

Zeros(n) == [i \in 1..n |-> 0]

\* mag with zeros added at the most significant end, up to n digits.
PadTo(mag, n) == IF Len(mag) >= n THEN mag ELSE mag \o Zeros(n - Len(mag))

(***************************************************************************)
(* shared/modules/Numeric: an arbitrary-precision number with a base and a *)
(* denomination.  Modelled as magnitude / 10^scale.                        *)
(***************************************************************************)
\* Decimal places between the denomination and wei.
EthShift == 18

GweiShift == 9

\* EtherDenomination
ETH == Str(<<"E", "T", "H">>)

GWEI == Str(<<"G", "W", "E", "I">>)

WEI == Str(<<"W", "E", "I">>)

DenominationShift(denomination) ==
  CASE denomination = ETH -> EthShift
    [] denomination = GWEI -> GweiShift
    [] denomination = WEI -> 0

HasHexPrefix(s) == Len(s) >= 2 /\ s[1] = "0" /\ s[2] = "x"

stripHexPrefix(s) == IF HasHexPrefix(s) THEN SubSeq(s, 3, Len(s)) ELSE s

\* The digits of a base-16 numeral, read most significant first.
RECURSIVE ParseHex(_, _)
ParseHex(digits, acc) ==
  IF digits = <<>> THEN acc
  ELSE ParseHex(Tail(digits), MulAdd(acc, 16, HexVal(Head(digits))))

\* new Numeric(value, 16, EtherDenomination.WEI)
NumericFromHexWei(value) ==
  [mag |-> Normalize(ParseHex(stripHexPrefix(value), <<>>)), scale |-> 0]

\* Numeric.toDenomination, from wei
toDenomination(n, denomination) ==
  [mag |-> n.mag, scale |-> n.scale + DenominationShift(denomination)]

\* Numeric.applyConversionRate, for a whole-number rate
applyConversionRate(n, rate) ==
  [mag |-> Normalize(MulAdd(n.mag, rate, 0)), scale |-> n.scale]

\* mag + 1
RECURSIVE Inc(_)
Inc(mag) ==
  IF mag = <<>> THEN <<1>>
  ELSE IF Head(mag) = 9 THEN <<0>> \o Inc(Tail(mag))
  ELSE <<Head(mag) + 1>> \o Tail(mag)

\* Numeric.round(numberOfDecimals), rounding half down (ties towards zero)
round(n, numberOfDecimals) ==
  IF n.scale <= numberOfDecimals THEN n
  ELSE LET k == n.scale - numberOfDecimals
           p == PadTo(n.mag, k)
           kept == SubSeq(p, k + 1, Len(p))
           up == \/ p[k] > 5
                 \/ p[k] = 5 /\ \E i \in 1..(k - 1) : p[i] # 0
       IN [mag |-> Normalize(IF up THEN Inc(kept) ELSE kept),
           scale |-> numberOfDecimals]

RECURSIVE StripLeadingZeroDigits(_)
StripLeadingZeroDigits(ds) ==
  IF ds # <<>> /\ Head(ds) = 0 THEN StripLeadingZeroDigits(Tail(ds)) ELSE ds

DigitsToChars(ds) == [i \in 1..Len(ds) |-> DigitChar(ds[i])]

\* The whole part of n, most significant digit first, at least one digit.
IntDigits(n) ==
  LET p == PadTo(n.mag, n.scale)
      ds == Reverse(SubSeq(p, n.scale + 1, Len(p)))
  IN IF ds = <<>> THEN <<0>> ELSE ds

\* The fraction digits of n, most significant first, trailing zeros removed.
FracDigits(n) ==
  LET p == PadTo(n.mag, n.scale)
  IN Reverse(StripLeadingZeroDigits(SubSeq(p, 1, n.scale)))

\* Numeric.toBase(10).toString()
NumericToString(n) ==
  IF FracDigits(n) = <<>>
  THEN DigitsToChars(IntDigits(n))
  ELSE DigitsToChars(IntDigits(n)) \o <<".">> \o DigitsToChars(FracDigits(n))

(***************************************************************************)
(* Number(string) of JavaScript, as far as line 73 uses it: whether the    *)
(* number a string converts to is 0.  A string that is no numeric literal  *)
(* converts to NaN, which is not 0.                                        *)
(***************************************************************************)
AllZeroChars(s) == \A i \in 1..Len(s) : s[i] = "0"

AllDecChars(s) == \A i \in 1..Len(s) : IsDecChar(s[i])

AllHexChars(s) == \A i \in 1..Len(s) : IsHexChar(s[i])

\* s is <digits> or <digits>e<digits>: a decimal literal with mantissa m
IsDecimalLiteral(s, m) ==
  \/ s = m /\ m # <<>> /\ AllDecChars(m)
  \/ /\ m # <<>> /\ AllDecChars(m)
     /\ Len(s) > Len(m) + 1
     /\ SubSeq(s, 1, Len(m)) = m
     /\ s[Len(m) + 1] = "e"
     /\ AllDecChars(SubSeq(s, Len(m) + 2, Len(s)))

\* Number(s) === 0, for a string of hex digits with or without "0x"
NumberIsZero(s) ==
  IF s = <<>> THEN TRUE
  ELSE IF HasHexPrefix(s)
  THEN Len(s) > 2 /\ AllHexChars(SubSeq(s, 3, Len(s)))
       /\ AllZeroChars(SubSeq(s, 3, Len(s)))
  ELSE \E k \in 1..Len(s) :
         IsDecimalLiteral(s, SubSeq(s, 1, k)) /\ AllZeroChars(SubSeq(s, 1, k))

(***************************************************************************)
(* ui/helpers/utils/confirm-tx.util formatCurrency and                     *)
(* shared/modules/conversion.utils getValueFromWeiHex: the fiat path.      *)
(***************************************************************************)
FiatDigits == 2

usd == Str(<<"u", "s", "d">>)

\* getValueFromWeiHex({value, fromCurrency, toCurrency, conversionRate,
\*                     numberOfDecimals, toDenomination})
getValueFromWeiHex(a) ==
  LET from == IF a.fromCurrency = Undefined THEN ETH ELSE a.fromCurrency
      denom == IF a.toDenomination = Undefined THEN ETH ELSE a.toDenomination
      n == NumericFromHexWei(a.value.val)
      converted == IF from # a.toCurrency
                   THEN applyConversionRate(n, a.conversionRate.val)
                   ELSE n
  IN Str(NumericToString(
           round(toDenomination(converted, denom), a.numberOfDecimals.val)))

\* Digits in groups of three, separated by commas.
RECURSIVE Grouped(_)
Grouped(cs) ==
  IF Len(cs) <= 3 THEN cs
  ELSE Grouped(SubSeq(cs, 1, Len(cs) - 3))
         \o <<",">> \o SubSeq(cs, Len(cs) - 2, Len(cs))

\* The decimal numeral cs (digits, at most one ".") as a number.
ParseDecimal(cs) ==
  LET dot == IF \E i \in 1..Len(cs) : cs[i] = "."
             THEN CHOOSE i \in 1..Len(cs) : cs[i] = "."
             ELSE Len(cs) + 1
      ds == SelectSeq(cs, LAMBDA c : c # ".")
  IN [mag |-> Normalize(Reverse([i \in 1..Len(ds) |-> HexVal(ds[i])])),
      scale |-> IF dot > Len(cs) THEN 0 ELSE Len(cs) - dot]

\* n with exactly FiatDigits decimals, grouped, after the currency's symbol.
FiatText(n) ==
  LET r == round(n, FiatDigits)
      p == PadTo(Zeros(FiatDigits - r.scale) \o r.mag, FiatDigits)
      frac == Reverse(SubSeq(p, 1, FiatDigits))
      whole == IntDigits([mag |-> p, scale |-> FiatDigits])
  IN <<"$">> \o Grouped(DigitsToChars(whole)) \o <<".">> \o DigitsToChars(frac)

\* formatCurrency(value, currencyCode): a known fiat code is formatted with
\* its symbol, grouping and decimals; any other value is returned unchanged.
formatCurrency(value, currencyCode) ==
  IF toUpperCase(currencyCode.val) = <<"U", "S", "D">>
  THEN Str(FiatText(ParseDecimal(value.val)))
  ELSE value

(***************************************************************************)
(* shared/constants/network TEST_NETWORK_TICKER_MAP: its values.           *)
(***************************************************************************)
GoerliETH == Str(<<"G", "o", "e", "r", "l", "i", "E", "T", "H">>)

SepoliaETH == Str(<<"S", "e", "p", "o", "l", "i", "a", "E", "T", "H">>)

LineaETH == Str(<<"L", "i", "n", "e", "a", "E", "T", "H">>)

TEST_NETWORK_TICKER_VALUES == {GoerliETH, SepoliaETH, LineaETH}

(***************************************************************************)
(* ui/hooks/useCurrencyDisplay.js                                          *)
(***************************************************************************)
MIN_DISPLAY_AMOUNT == <<"<", "0", ".", "0", "0", "0", "0", "0", "1">>

DEFAULT_PRECISION_DECIMALS == 6

DEFAULT_FIAT_DECIMALS == 2

\* currency === currentCurrency
isUserPreferredCurrency(currency, currentCurrency) == currency = currentCurrency

\* if (displayValue)
UsesDisplayValue(displayValue) == Truthy(displayValue)

\* A variant that lets the user's fiat currency take precedence.
UsesNativePath_UnlessPreferred(currency, nativeCurrency, isUPC) ==
  ~isUPC /\ (currency = nativeCurrency \/ ~Truthy(nativeCurrency))

\* currency === nativeCurrency || (!isUserPreferredCurrency && !nativeCurrency)
UsesNativePath(currency, nativeCurrency, isUPC) ==
  \/ currency = nativeCurrency
  \/ ~isUPC /\ ~Truthy(nativeCurrency)

\* isUserPreferredCurrency && conversionRate
UsesFiatPath(isUPC, conversionRate) == isUPC /\ Truthy(conversionRate)

\* numberOfDecimals || DEFAULT_PRECISION_DECIMALS
NativeDecimals(numberOfDecimals) ==
  Or(numberOfDecimals, Num(DEFAULT_PRECISION_DECIMALS))

\* numberOfDecimals || 2
FiatDecimals(numberOfDecimals) == Or(numberOfDecimals, Num(DEFAULT_FIAT_DECIMALS))

\* new Numeric(inputValue, 16, WEI).toDenomination(denomination || ETH)
\*   .round(numberOfDecimals || DEFAULT_PRECISION_DECIMALS).toBase(10).toString()
ethDisplayValue(inputValue, denomination, numberOfDecimals) ==
  NumericToString(
    round(toDenomination(NumericFromHexWei(inputValue.val), Or(denomination, ETH)),
          NativeDecimals(numberOfDecimals).val))

\* A variant without the comparison of Number(inputValue) with 0.
IsNonZeroInput_AnyInput(inputValue) == Truthy(inputValue)

\* inputValue && Number(inputValue) !== 0
IsNonZeroInput(inputValue) == Truthy(inputValue) /\ ~NumberIsZero(inputValue.val)

\* ethDisplayValue === '0' && inputValue && Number(inputValue) !== 0
\*   ? MIN_DISPLAY_AMOUNT : ethDisplayValue
NativeValue(inputValue, denomination, numberOfDecimals) ==
  LET shown == ethDisplayValue(inputValue, denomination, numberOfDecimals)
  IN IF shown = <<"0">> /\ IsNonZeroInput(inputValue)
     THEN Str(MIN_DISPLAY_AMOUNT)
     ELSE Str(shown)

\* formatCurrency(getValueFromWeiHex({...}), currency)
FiatValue(inputValue, o, nativeCurrency, conversionRate) ==
  formatCurrency(
    getValueFromWeiHex([value |-> inputValue,
                        fromCurrency |-> nativeCurrency,
                        toCurrency |-> o.currency,
                        conversionRate |-> conversionRate,
                        numberOfDecimals |-> FiatDecimals(o.numberOfDecimals),
                        toDenomination |-> o.denomination]),
    o.currency)

\* The function given to useMemo.
ComputeValue(inputValue, o, nativeCurrency, conversionRate, isUPC) ==
  IF UsesDisplayValue(o.displayValue) THEN o.displayValue
  ELSE IF UsesNativePath(o.currency, nativeCurrency, isUPC)
  THEN NativeValue(inputValue, o.denomination, o.numberOfDecimals)
  ELSE IF UsesFiatPath(isUPC, conversionRate)
  THEN FiatValue(inputValue, o, nativeCurrency, conversionRate)
  ELSE Null

\* A variant whose list lacks conversionRate.
MemoDeps_WithoutRate(inputValue, o, nativeCurrency, conversionRate, isUPC) ==
  <<inputValue, nativeCurrency, o.displayValue, o.numberOfDecimals,
    o.denomination, o.currency, Bool(isUPC)>>

\* The dependency list given to useMemo.
MemoDeps(inputValue, o, nativeCurrency, conversionRate, isUPC) ==
  <<inputValue, nativeCurrency, conversionRate, o.displayValue,
    o.numberOfDecimals, o.denomination, o.currency, Bool(isUPC)>>

\* A variant that upper-cases every currency code.
currencyTickerSymbol_AlwaysUpper(currency) ==
  IF currency = Undefined \/ currency = Null THEN Undefined
  ELSE Str(toUpperCase(currency.val))

\* Object.values(TEST_NETWORK_TICKER_MAP).includes(currency)
\*   ? currency : currency?.toUpperCase()
currencyTickerSymbol(currency) ==
  IF currency \in TEST_NETWORK_TICKER_VALUES THEN currency
  ELSE IF currency = Undefined \/ currency = Null THEN Undefined
  ELSE Str(toUpperCase(currency.val))

\* A variant that resolves the suffix whatever hideLabel is.
ResolveSuffix_IgnoresHideLabel(o) ==
  Or(o.suffix,
     IF o.currency \in TEST_NETWORK_TICKER_VALUES THEN o.currency
     ELSE IF o.currency = Undefined THEN Undefined
     ELSE Str(toUpperCase(o.currency.val)))

\* let suffix; if (!opts.hideLabel) { suffix = opts.suffix || currencyTickerSymbol }
ResolveSuffix(o) ==
  IF ~Truthy(o.hideLabel)
  THEN Or(o.suffix, currencyTickerSymbol(o.currency))
  ELSE Undefined

\* A variant that leaves a null value out of the string.
DisplayString_OmitsNull(prefix, value, suffix) ==
  ToStringJS(Or(prefix, Str(<<>>)))
    \o (IF value = Null THEN <<>> ELSE ToStringJS(value))
    \o (IF Truthy(suffix) THEN <<" ">> \o ToStringJS(suffix) ELSE <<>>)

\* `${prefix || ''}${value}${suffix ? ` ${suffix}` : ''}`
DisplayString(prefix, value, suffix) ==
  ToStringJS(Or(prefix, Str(<<>>)))
    \o ToStringJS(value)
    \o (IF Truthy(suffix) THEN <<" ">> \o ToStringJS(suffix) ELSE <<>>)

\* return [string, { prefix, value, suffix }]
Assemble(o, value) ==
  LET suffix == ResolveSuffix(o)
  IN [display |-> DisplayString(o.prefix, value, suffix),
      parts |-> [prefix |-> o.prefix, value |-> value, suffix |-> suffix]]

\* What one call returns when nothing is memoized.
FreshResult(inputValue, o, current, native, rate) ==
  Assemble(o, ComputeValue(inputValue, o, native, rate,
                           isUserPreferredCurrency(o.currency, current)))

(***************************************************************************)
(* The state: a component that calls the hook, and the store it reads.     *)
(***************************************************************************)
VARIABLES
  inputValue,       \* the hook's first argument, at the next call
  opts,             \* the hook's second argument, at the next call
  currentCurrency,  \* store: the user's fiat currency
  nativeCurrency,   \* store: the chain's native currency
  conversionRate,   \* store: native to fiat rate
  memo,             \* useMemo's slot of this component
  result,           \* what the last call returned
  rendered,         \* the last call saw the present arguments and store
  recomputed,       \* the last call ran the memoized function
  memoBefore        \* useMemo's slot as the last call found it

vars == <<inputValue, opts, currentCurrency, nativeCurrency, conversionRate,
          memo, result, rendered, recomputed, memoBefore>>

NoMemo == [has |-> FALSE, deps |-> <<>>, value |-> Undefined]

NoResult ==
  [display |-> <<>>,
   parts |-> [prefix |-> Undefined, value |-> Undefined, suffix |-> Undefined]]

\* One call of useCurrencyDisplay(inputValue, opts) during a render.
useCurrencyDisplay ==
  LET isUPC == isUserPreferredCurrency(opts.currency, currentCurrency)
      deps == MemoDeps(inputValue, opts, nativeCurrency, conversionRate, isUPC)
      run == ~memo.has \/ memo.deps # deps
      value == IF run
               THEN ComputeValue(inputValue, opts, nativeCurrency,
                                 conversionRate, isUPC)
               ELSE memo.value
  IN /\ memoBefore' = memo
     /\ memo' = [has |-> TRUE, deps |-> deps, value |-> value]
     /\ recomputed' = run
     /\ result' = Assemble(opts, value)
     /\ rendered' = TRUE
     /\ UNCHANGED <<inputValue, opts, currentCurrency, nativeCurrency,
                    conversionRate>>

(***************************************************************************)
(* The component's surroundings: the parent passes new arguments, the      *)
(* store's selectors (useSelector) deliver new values.                     *)
(***************************************************************************)
OneWei == Str(<<"0", "x", "1">>)

\* 10^18 wei
OneEth ==
  Str(<<"0", "x", "d", "e", "0", "b", "6", "b", "3", "a", "7", "6", "4",
        "0", "0", "0", "0">>)

\* 1.5 * 10^18 wei
OneAndAHalfEth ==
  Str(<<"0", "x", "1", "4", "d", "1", "1", "2", "0", "d", "7", "b", "1", "6",
        "0", "0", "0", "0">>)

\* 1.5 * 10^9 wei, without the prefix
OneAndAHalfGwei == Str(<<"5", "9", "6", "8", "2", "f", "0", "0">>)

Options(dvs, prefixes, decimals, denominations, currencies, hides, suffixes) ==
  [displayValue : dvs, prefix : prefixes, numberOfDecimals : decimals,
   denomination : denominations, currency : currencies, hideLabel : hides,
   suffix : suffixes]

MemoInputs == {OneWei, OneAndAHalfEth}

MemoOptions ==
  Options({Undefined, Str(<<"7">>)}, {Undefined}, {Undefined, Num(1)},
          {Undefined, GWEI}, {ETH, usd}, {Undefined}, {Undefined})

MemoCurrencies == {usd, ETH}

MemoNatives == {ETH, Undefined}

MemoRates == {Undefined, Num(2000)}

\* What the last call returned describes that call only.
ReturnValueGone ==
  /\ rendered' = FALSE
  /\ result' = NoResult
  /\ recomputed' = FALSE
  /\ memoBefore' = NoMemo

NewArguments ==
  /\ \E v \in MemoInputs, o \in MemoOptions :
       /\ <<v, o>> # <<inputValue, opts>>
       /\ inputValue' = v
       /\ opts' = o
  /\ ReturnValueGone
  /\ UNCHANGED <<currentCurrency, nativeCurrency, conversionRate, memo>>

CurrentCurrencyChanges ==
  /\ \E c \in MemoCurrencies : c # currentCurrency /\ currentCurrency' = c
  /\ ReturnValueGone
  /\ UNCHANGED <<inputValue, opts, nativeCurrency, conversionRate, memo>>

NativeCurrencyChanges ==
  /\ \E c \in MemoNatives : c # nativeCurrency /\ nativeCurrency' = c
  /\ ReturnValueGone
  /\ UNCHANGED <<inputValue, opts, currentCurrency, conversionRate, memo>>

ConversionRateChanges ==
  /\ \E r \in MemoRates : r # conversionRate /\ conversionRate' = r
  /\ ReturnValueGone
  /\ UNCHANGED <<inputValue, opts, currentCurrency, nativeCurrency, memo>>

NotYetCalled ==
  /\ memo = NoMemo
  /\ memoBefore = NoMemo
  /\ result = NoResult
  /\ rendered = FALSE
  /\ recomputed = FALSE

\* A mounted component, before its first render.
Init ==
  /\ inputValue = OneWei
  /\ opts \in Options({Undefined}, {Undefined}, {Undefined}, {Undefined}, {ETH},
                      {Undefined}, {Undefined})
  /\ currentCurrency = usd
  /\ nativeCurrency = ETH
  /\ conversionRate = Undefined
  /\ NotYetCalled

Next ==
  \/ useCurrencyDisplay
  \/ NewArguments
  \/ CurrentCurrencyChanges
  \/ NativeCurrencyChanges
  \/ ConversionRateChanges

Spec == Init /\ [][Next]_vars

(***************************************************************************)
(* Single calls, over wider sets of arguments.                             *)
(***************************************************************************)
MaxHexLen == 3

MaxDecimals == 7

HexAlphabet == {"0", "1", "e", "f"}

HexDigitStrings == UNION {[1..k -> HexAlphabet] : k \in 1..MaxHexLen}

HexInputs ==
  {Str(s) : s \in HexDigitStrings}
    \cup {Str(<<"0", "x">> \o s) : s \in HexDigitStrings}
    \cup {OneEth, OneAndAHalfEth, OneAndAHalfGwei}

DecimalsOptions == {Undefined} \cup {Num(n) : n \in 0..MaxDecimals}

\* Calls that take the native-denomination path.
InitNative ==
  /\ inputValue \in HexInputs
  /\ opts \in Options({Undefined}, {Undefined}, DecimalsOptions,
                      {Undefined, ETH, GWEI, WEI}, {ETH}, {Undefined},
                      {Undefined})
  /\ currentCurrency = usd
  /\ nativeCurrency \in {ETH, Undefined}
  /\ conversionRate = Num(2000)
  /\ NotYetCalled

SpecNative == InitNative /\ [][useCurrencyDisplay]_vars

\* Calls over every way of resolving the value.
InitResolve ==
  /\ inputValue \in {OneWei, OneEth, OneAndAHalfEth}
  /\ opts \in Options({Undefined, Str(<<>>), Str(<<"7">>)}, {Undefined},
                      {Undefined, Num(1)}, {Undefined, GWEI},
                      {Undefined, ETH, usd}, {Undefined}, {Undefined})
  /\ currentCurrency \in {usd, ETH}
  /\ nativeCurrency \in {Undefined, ETH, usd}
  /\ conversionRate \in {Undefined, Num(1), Num(2000)}
  /\ NotYetCalled

SpecResolve == InitResolve /\ [][useCurrencyDisplay]_vars

eth == Str(<<"e", "t", "h">>)

gwei == Str(<<"g", "w", "e", "i">>)

\* Calls over every way of labelling the value.
InitLabel ==
  /\ inputValue \in {OneWei, OneEth}
  /\ opts \in Options({Undefined, Str(<<"7">>)},
                      {Undefined, Str(<<>>), Str(<<"~">>)},
                      {Undefined}, {Undefined},
                      {Undefined, ETH, eth, usd, SepoliaETH, GoerliETH},
                      {Undefined, Bool(FALSE), Bool(TRUE)},
                      {Undefined, Str(<<>>), gwei})
  /\ currentCurrency = usd
  /\ nativeCurrency \in {ETH, SepoliaETH}
  /\ conversionRate \in {Undefined, Num(2000)}
  /\ NotYetCalled

SpecLabel == InitLabel /\ [][useCurrencyDisplay]_vars

(***************************************************************************)
(* Properties                                                              *)
(***************************************************************************)
\* No displayValue, and the currency is the native one, or differs from the
\* user's fiat currency while no native currency is configured.
NativeCase ==
  /\ opts.displayValue = Undefined
  /\ \/ opts.currency = nativeCurrency
     \/ opts.currency # currentCurrency /\ nativeCurrency = Undefined

\* The hex digits of inputValue, after an optional "0x".
InputDigits ==
  IF Len(inputValue.val) >= 2 /\ SubSeq(inputValue.val, 1, 2) = <<"0", "x">>
  THEN SubSeq(inputValue.val, 3, Len(inputValue.val))
  ELSE inputValue.val

DenotesZero == InputDigits # <<>> /\ \A i \in 1..Len(InputDigits) : InputDigits[i] = "0"

DenotesNonZero == \E i \in 1..Len(InputDigits) : InputDigits[i] # "0"

\* The amount scaled to the denomination and rounded to n decimals, in base 10.
ScaledAndRounded(n) ==
  NumericToString(
    round(toDenomination(NumericFromHexWei(inputValue.val),
                         IF opts.denomination = Undefined THEN ETH
                         ELSE opts.denomination),
          n))

\* C1: on the native-denomination path, a hex inputValue that denotes a
\* nonzero integer and whose converted, rounded value renders as "0" gives the
\* value "<0.000001", never "0".
C1_NonZeroShowsSentinel ==
  (/\ rendered
   /\ NativeCase
   /\ DenotesNonZero
   /\ ethDisplayValue(inputValue, opts.denomination, opts.numberOfDecimals) = <<"0">>)
    => result.parts.value = Str(<<"<", "0", ".", "0", "0", "0", "0", "0", "1">>)

\* C2: on the native-denomination path, a hex inputValue that denotes zero
\* gives the value "0", for every denomination and numberOfDecimals.
C2_ZeroShowsZero ==
  (rendered /\ NativeCase /\ DenotesZero) => result.parts.value = Str(<<"0">>)

C2_Witness ==
  /\ rendered
  /\ NativeCase
  /\ inputValue = Str(<<"0", "x", "0", "0">>)
  /\ opts.denomination = GWEI
  /\ opts.numberOfDecimals = Num(2)
  /\ result.parts.value = Str(<<"0">>)

\* C3: whenever displayValue is supplied, any string, the empty one included,
\* the returned value equals it.
C3_DisplayValueVerbatim ==
  (rendered /\ opts.displayValue # Undefined)
    => result.parts.value = opts.displayValue

\* C4: the value is displayValue when it is supplied; else the native
\* conversion when the currency is the native one, or differs from the user's
\* fiat currency with no native currency configured; else the fiat conversion
\* when the currency is the user's fiat currency and a rate is available; else
\* null, and null in no other case.
C4_FourCases ==
  rendered =>
    LET case1 == opts.displayValue # Undefined
        case2 == \/ opts.currency = nativeCurrency
                 \/ opts.currency # currentCurrency /\ nativeCurrency = Undefined
        case3 == opts.currency = currentCurrency /\ conversionRate # Undefined
    IN /\ result.parts.value =
            (IF case1 THEN opts.displayValue
             ELSE IF case2
             THEN NativeValue(inputValue, opts.denomination, opts.numberOfDecimals)
             ELSE IF case3
             THEN FiatValue(inputValue, opts, nativeCurrency, conversionRate)
             ELSE Null)
       /\ (result.parts.value = Null) <=> ~(case1 \/ case2 \/ case3)

\* C5: with no displayValue and the currency equal to the native currency, the
\* result is the same under every conversion rate and every fiat currency of
\* the user.
C5_NativeIgnoresRateAndFiat ==
  (rendered /\ opts.displayValue = Undefined /\ opts.currency = nativeCurrency)
    => \A c \in {usd, ETH}, r \in {Undefined, Num(1), Num(2000)} :
         FreshResult(inputValue, opts, c, nativeCurrency, r) = result

C5_Witness ==
  /\ rendered
  /\ opts.displayValue = Undefined
  /\ opts.currency = nativeCurrency
  /\ opts.currency = currentCurrency
  /\ conversionRate = Num(2000)
  /\ inputValue = OneWei
  /\ result.parts.value = Str(MIN_DISPLAY_AMOUNT)

\* C6: on the native-denomination path the value is the amount scaled to the
\* denomination (ETH when none is given) and rounded to numberOfDecimals
\* places, for every supplied numberOfDecimals >= 0, and to 6 places only when
\* the option is absent.  (Amounts that round to "0" are left to C1 and C2.)
C6_RoundsToSuppliedDecimals ==
  LET n == IF opts.numberOfDecimals = Undefined THEN 6
           ELSE opts.numberOfDecimals.val
  IN (rendered /\ NativeCase /\ ScaledAndRounded(n) # <<"0">>)
       => result.parts.value = Str(ScaledAndRounded(n))

C8_HideLabel ==
  (rendered /\ opts.hideLabel = Bool(TRUE)) =>
    LET shown == FreshResult(inputValue, [opts EXCEPT !.hideLabel = Undefined],
                             currentCurrency, nativeCurrency, conversionRate)
        prefixText == IF opts.prefix = Undefined THEN <<>> ELSE opts.prefix.val
    IN /\ result.parts.suffix = Undefined
       /\ result.display = prefixText \o ToStringJS(result.parts.value)
       /\ result.parts.value = shown.parts.value
       /\ result.parts.prefix = shown.parts.prefix

C8_Witness ==
  /\ rendered
  /\ opts.hideLabel = Bool(TRUE)
  /\ opts.suffix = gwei
  /\ opts.currency = eth
  /\ opts.prefix = Str(<<"~">>)
  /\ result.parts.suffix = Undefined

\* C9: the returned string is prefix (empty when absent) + value + (" " +
\* suffix when a suffix is present), built from the returned parts; a null
\* value appears in it as the text "null".
C9_Assembly ==
  rendered =>
    LET prefixText == IF result.parts.prefix \in {Undefined, Str(<<>>)} THEN <<>>
                      ELSE result.parts.prefix.val
        valueText == IF result.parts.value = Null THEN <<"n", "u", "l", "l">>
                     ELSE result.parts.value.val
        suffixText == IF result.parts.suffix \in {Undefined, Str(<<>>)} THEN <<>>
                      ELSE <<" ">> \o result.parts.suffix.val
    IN result.display = prefixText \o valueText \o suffixText

C9_Witness ==
  /\ rendered
  /\ result.parts.value = Null
  /\ result.parts.prefix = Str(<<"~">>)
  /\ result.display = <<"~", "n", "u", "l", "l", " ", "U", "S", "D">>

\* C10: after any sequence of calls with arguments and store values changing
\* in between, a call returns what an un-memoized computation returns on its
\* inputs, and it recomputes only when a listed dependency changed.
C10_MemoIsFresh ==
  rendered =>
    /\ result = FreshResult(inputValue, opts, currentCurrency, nativeCurrency,
                            conversionRate)
    /\ recomputed =>
         \/ ~memoBefore.has
         \/ memoBefore.deps #
              <<inputValue, nativeCurrency, conversionRate, opts.displayValue,
                opts.numberOfDecimals, opts.denomination, opts.currency,
                Bool(opts.currency = currentCurrency)>>

\* A later call whose dependencies are those of the call before it, on the
\* way that yields no value.
C10_Witness ==
  /\ rendered
  /\ ~recomputed
  /\ memoBefore.has
  /\ currentCurrency = ETH
  /\ opts.currency = usd
  /\ conversionRate = Num(2000)

====
